---- MODULE Spec2Model ----
(***************************************************************************)
(* The "authored" plugin of adapt-authoring: registration of sibling API   *)
(* modules, author/timestamp stamping of payloads and the propagation of   *)
(* the "updated" timestamp to a course's config document.                  *)
(*                                                                         *)
(* Two revisions of the module are kept side by side (variable revision):  *)
(*   "part_000" - src/unnamed/part_000, the ESM AuthoredModule with the    *)
(*                accessCheck option and checkAccess;                      *)
(*   "spec_js"  - class AuthoredModuleTest of                              *)
(*                src/tests/AuthoredModule.spec.js:471-531, the revision   *)
(*                with registerSchemas, preDeleteHook and                  *)
(*                updateCourseTimestamp.                                   *)
(* A behaviour runs one revision from start to end.                        *)
(***************************************************************************)
EXTENDS Integers, Sequences, FiniteSets, Bags, TLC

\* ------------------------------------------------------------------ bounds
\* registerModule calls started in one behaviour
MaxCalls == 2
\* registerModule calls that may be in flight (suspended at an await) at once
MaxInFlight == 2
\* the clock's last tick
MaxClock == 1
\* updateTimestamps/updateCourseTimestamp calls suspended at an await at once
MaxStampers == 2

\* ------------------------------------------------------- JavaScript values
Undefined == "undefined"
\* JavaScript truthiness of the values the model uses: undefined and the
\* empty string are falsy, every other string is truthy
Truthy(v) == v # Undefined /\ v # ""

\* ---------------------------------------------------------- sibling modules
Revisions == {"part_000", "spec_js"}

\* pages  : an API module with a schema and every hook
\* assets : an API module without schemaName
\* logger : not an API module (no hooks at all)
\* legacy : an API module exposing the older hook names (insertHook,
\*          updateHook) instead of preInsertHook/preUpdateHook/preDeleteHook
Mods == {"pages", "assets", "logger", "legacy"}

isApiModule(m) == m \in {"pages", "assets", "legacy"}

schemaName(m) ==
  CASE m = "pages" -> "page"
    [] m = "legacy" -> "legacyitem"
    [] OTHER -> Undefined

HookNames == {"requestHook", "preInsertHook", "preUpdateHook",
              "preDeleteHook", "accessCheckHook"}

\* the hook objects a module exposes; tapping any other one is a TypeError
Hooks(m) ==
  CASE m \in {"pages", "assets"} -> HookNames
    [] m = "legacy" -> {"requestHook", "accessCheckHook"}
    [] OTHER -> {}

\* the options argument of registerModule
Opts == {"omitted", "accessCheckTrue", "accessCheckFalse"}

\* options.accessCheck after the default parameter value has been applied:
\* part_000 defaults to { accessCheck: true }, spec_js to {}
AccessCheck(rev, opts) ==
  CASE opts = "accessCheckTrue" -> TRUE
    [] opts = "accessCheckFalse" -> FALSE
    [] OTHER -> rev = "part_000"

\* --------------------------------------------------------------- handlers
HUpdateAuthor == [fn |-> "updateAuthor", bound |-> "none", arg |-> "req"]
HInsert == [fn |-> "updateTimestamps", bound |-> "insert", arg |-> "insertData"]
HUpdate == [fn |-> "updateTimestamps", bound |-> "update", arg |-> "updateData"]
HDelete == [fn |-> "updateCourseTimestamp", bound |-> "none", arg |-> "ogDoc"]
HAccess == [fn |-> "checkAccess", bound |-> "mod", arg |-> "args"]

Tap(hook, handler) == [hook |-> hook, handler |-> handler]

\* the tap calls registerModule makes, in program order
TapList(rev, opts) ==
  IF rev = "part_000"
  THEN <<Tap("requestHook", HUpdateAuthor),
         Tap("preInsertHook", HInsert),
         Tap("preUpdateHook", HUpdate)>>
       \o (IF AccessCheck(rev, opts)
           THEN <<Tap("accessCheckHook", HAccess)>> ELSE <<>>)
  ELSE <<Tap("requestHook", HUpdateAuthor),
         Tap("preInsertHook", HInsert),
         Tap("preUpdateHook", HUpdate),
         Tap("preDeleteHook", HDelete)>>

VARIABLES
  revision,           \* which revision of the module runs
  registeredModules,  \* this.registeredModules
  schemaExtensions,   \* schema registry: schema names extended with 'authored'
  schemasRun,         \* extendSchema calls of the latest registerSchemas run
  taps,               \* taps[m][hook]: the handlers subscribed to m's hook
  reg,                \* the bag of registerModule calls suspended at an await
  last,               \* the registerModule call that completed last
  calls,              \* registerModule calls started so far
  now,                \* the clock new Date() reads
  req,                \* the request object; req.apiData.data is the payload
  db,                 \* the content collection
  st,                 \* the bag of stamping calls suspended at an await
  ev                  \* the stamping step taken last

regVars == <<registeredModules, schemaExtensions, schemasRun, taps, reg, last,
             calls>>
stampVars == <<now, req, db, st, ev>>
vars == <<revision, registeredModules, schemaExtensions, schemasRun, taps,
          reg, last, calls, now, req, db, st, ev>>
\* bag b with one copy of c added, removed, replaced by d
Add(b, c) == b (+) SetToBag({c})

Remove(b, c) == b (-) SetToBag({c})

Replace(b, c, d) == Add(Remove(b, c), d)

Includes(seq, x) == \E i \in 1..Len(seq) : seq[i] = x

NoTaps == [h \in HookNames |-> <<>>]

NoCall == [mod |-> "none", extendArgs |-> <<>>, threw |-> FALSE,
           result |-> "none"]

\* the record left by call c completing with `result` ("ok" when the
\* promise resolves, the error's name when it rejects)
Completed(c, result) ==
  [mod |-> c.mod, extendArgs |-> c.extendArgs, threw |-> c.threw,
   result |-> result]

\* Rejection without the duplicate check
RejectionNoDuplicateCheck(registered, mod) ==
  IF ~isApiModule(mod) THEN "API_MODULE_INVALID_CLASS" ELSE "none"

\* Rejection without the isApiModule check
RejectionNoClassCheck(registered, mod) ==
  IF Includes(registered, mod) THEN "DUPL_AUTHORED_MODULE_NAME" ELSE "none"

\* the error registerModule throws before it does anything, "none" if none
Rejection(registered, mod) ==
  IF Includes(registered, mod) THEN "DUPL_AUTHORED_MODULE_NAME"
  ELSE IF ~isApiModule(mod) THEN "API_MODULE_INVALID_CLASS"
  ELSE "none"

\* mod.<hook>.tap(handler) for each element of hs, stopping at the first
\* hook object the module does not expose
RECURSIVE TapAll(_, _, _)
TapAll(m, t, hs) ==
  IF hs = <<>> THEN [taps |-> t, result |-> "ok"]
  ELSE IF Head(hs).hook \notin Hooks(m)
       THEN [taps |-> t, result |-> "TypeError"]
       ELSE TapAll(m, [t EXCEPT ![Head(hs).hook] = Append(@, Head(hs).handler)],
                   Tail(hs))

InitRegister ==
  /\ registeredModules = <<>>
  /\ schemaExtensions = {}
  /\ schemasRun = <<>>
  /\ taps = [m \in Mods |-> NoTaps]
  /\ reg = EmptyBag
  /\ last = NoCall
  /\ calls = 0

\* call c completes with `result`; `from` is the bag holding the call as it
\* was suspended, empty for a call that has not awaited yet
Complete(from, c, result) ==
  /\ reg' = reg (-) from
  /\ last' = Completed(c, result)

\* call c is suspended at the await named pc
Suspend(from, c, pc) ==
  /\ reg' = Add(reg (-) from, [c EXCEPT !.pc = pc])
  /\ UNCHANGED last

\* PushAndContinue with unshift for push: the module goes to the front
PushAndContinueUnshift(from, c, ext) ==
  /\ registeredModules' = <<c.mod>> \o registeredModules
  /\ schemaExtensions' = ext
  /\ UNCHANGED schemasRun
  /\ IF revision = "part_000"
     THEN LET t == TapAll(c.mod, taps[c.mod], TapList(revision, c.opts)) IN
          /\ taps' = [taps EXCEPT ![c.mod] = t.taps]
          /\ Complete(from, c, t.result)
     ELSE /\ UNCHANGED taps
          /\ Suspend(from, c, "registerSchemas")

\* registerModule from `this.registeredModules.push(mod)` on, for the call
\* c (ext is the schema registry by then)
PushAndContinue(from, c, ext) ==
  /\ registeredModules' = Append(registeredModules, c.mod)
  /\ schemaExtensions' = ext
  /\ UNCHANGED schemasRun
  /\ IF revision = "part_000"
     THEN LET t == TapAll(c.mod, taps[c.mod], TapList(revision, c.opts)) IN
          /\ taps' = [taps EXCEPT ![c.mod] = t.taps]
          /\ Complete(from, c, t.result)
     ELSE /\ UNCHANGED taps
          /\ Suspend(from, c, "registerSchemas")

\* registerModule(mod, options): the call, up to its first await
RegisterModule(mod, opts) ==
  /\ BagCardinality(reg) < MaxInFlight
  /\ calls < MaxCalls
  /\ calls' = calls + 1
  /\ UNCHANGED <<revision, stampVars>>
  /\ LET c == [pc |-> "start", mod |-> mod, opts |-> opts,
               extendArgs |-> <<>>, threw |-> FALSE] IN
     IF Rejection(registeredModules, mod) # "none"
     THEN /\ Complete(EmptyBag, c, Rejection(registeredModules, mod))
          /\ UNCHANGED <<registeredModules, schemaExtensions, schemasRun, taps>>
     ELSE IF Truthy(schemaName(mod))
     THEN /\ Suspend(EmptyBag, c, "waitForModule")
          /\ UNCHANGED <<registeredModules, schemaExtensions, schemasRun, taps>>
     ELSE PushAndContinue(EmptyBag, c, schemaExtensions)

\* call c0 resumes after `await this.app.waitForModule('jsonschema')` and
\* calls jsonschema.extendSchema(mod.schemaName, this.schemaName), which
\* throws or returns
ExtendSchema(c0, threw) ==
  /\ BagIn(c0, reg)
  /\ c0.pc = "waitForModule"
  /\ UNCHANGED <<revision, calls, stampVars>>
  /\ LET c == [c0 EXCEPT !.extendArgs = <<schemaName(c0.mod)>>,
                         !.threw = threw] IN
     IF threw
     THEN /\ Complete(SetToBag({c0}), c, "SchemaError")
          /\ UNCHANGED <<registeredModules, schemaExtensions, schemasRun, taps>>
     ELSE PushAndContinue(SetToBag({c0}), c,
                          schemaExtensions \cup {schemaName(c.mod)})

\* SchemasRun without the try/catch: the first exception ends the forEach
SchemasRunUncaught(throws) ==
  LET n == Len(registeredModules)
      stop == IF \E i \in 1..n : throws[i]
              THEN CHOOSE i \in 1..n : throws[i] /\ \A j \in 1..(i - 1) : ~throws[j]
              ELSE n IN
  [i \in 1..stop |->
     [schema |-> schemaName(registeredModules[i]), threw |-> throws[i]]]

\* the forEach of registerSchemas over this.registeredModules; throws[i]
\* says whether extendSchema throws for the i-th module (caught and dropped)
SchemasRun(throws) ==
  [i \in 1..Len(registeredModules) |->
     [schema |-> schemaName(registeredModules[i]), threw |-> throws[i]]]

SchemasAfter(throws) ==
  schemaExtensions \cup
    {schemaName(registeredModules[i]) :
       i \in {j \in 1..Len(registeredModules) : ~throws[j]}}

\* spec_js: registerModule's `await this.registerSchemas()` runs the forEach
AwaitRegisterSchemas(c0, throws) ==
  /\ BagIn(c0, reg)
  /\ c0.pc = "registerSchemas"
  /\ UNCHANGED <<revision, calls, registeredModules, taps, stampVars>>
  /\ schemasRun' = SchemasRun(throws)
  /\ schemaExtensions' = SchemasAfter(throws)
  /\ Suspend(SetToBag({c0}), c0, "tap")

\* spec_js: registerSchemas called on its own (init taps it on
\* jsonschema.registerSchemasHook): the forEach over the list as it is
RegisterSchemas(throws) ==
  /\ revision = "spec_js"
  /\ schemasRun' = SchemasRun(throws)
  /\ schemaExtensions' = SchemasAfter(throws)
  /\ UNCHANGED <<revision, registeredModules, taps, reg, last, calls,
                 stampVars>>

\* spec_js: registerModule resumes after registerSchemas and taps the hooks
TapHooks(c0) ==
  /\ BagIn(c0, reg)
  /\ c0.pc = "tap"
  /\ UNCHANGED <<revision, calls, registeredModules, schemaExtensions,
                 schemasRun, stampVars>>
  /\ LET t == TapAll(c0.mod, taps[c0.mod], TapList(revision, c0.opts)) IN
     /\ taps' = [taps EXCEPT ![c0.mod] = t.taps]
     /\ Complete(SetToBag({c0}), c0, t.result)

NextRegister ==
  \/ \E mod \in Mods, opts \in Opts : RegisterModule(mod, opts)
  \/ \E c \in BagToSet(reg), threw \in BOOLEAN : ExtendSchema(c, threw)
  \/ \E c \in BagToSet(reg), throws \in [1..Len(registeredModules) -> BOOLEAN] :
       AwaitRegisterSchemas(c, throws)
  \/ \E throws \in [1..Len(registeredModules) -> BOOLEAN] :
       RegisterSchemas(throws)
  \/ \E c \in BagToSet(reg) : TapHooks(c)

\* ------------------------------------------------------ stamping: values
\* new Date().toISOString(): a fixed-width string whose lexicographic order
\* is the order of the instants; here two decimal digits of the clock
ISO(t) == <<t \div 10, t % 10>>

\* authenticated principals (ObjectIds) and _id.toString()
Users == {"ObjectId(a1)", "ObjectId(b2)"}

IdToString(u) == IF u = "ObjectId(a1)" THEN "a1" ELSE "b2"

Methods == {"POST", "PUT"}

\* c1 has a config document, c2 has none
Courses == {"c1", "c2"}

\* a JavaScript object is a function from the names of the properties it
\* has to their values; a property it lacks reads as undefined
Has(o, f) == f \in DOMAIN o

Set(o, f, v) == [x \in DOMAIN o \cup {f} |-> IF x = f THEN v ELSE o[x]]

Prop(f, vs) == IF vs = {} THEN {<<>>} ELSE {Set(<<>>, f, v) : v \in vs} \cup {<<>>}

\* !o.f for a string-valued property: absent (undefined) or the empty string
Falsy(o, f) == ~Has(o, f) \/ o[f] = ""

\* the payloads a client (or a retried request) sends
Payloads ==
  {cb @@ ca @@ ci : cb \in Prop("createdBy", {"", "b2"}),
                    ca \in Prop("createdAt", {ISO(0)}),
                    ci \in Prop("_courseId", Courses)}

\* req.apiData: modifying is true, false or absent
ApiDatas ==
  {m @@ Set(<<>>, "data", d) : m \in Prop("modifying", BOOLEAN), d \in Payloads}

Requests == {[method |-> m, apiData |-> a] : m \in Methods, a \in ApiDatas}

\* the content collection at start: one config for c1, a page of c1 and the
\* config of a course no request belongs to
ContentDocs ==
  [d \in {"config1", "page1", "config9"} |->
     [_id |-> d,
      _type |-> IF d = "page1" THEN "page" ELSE "config",
      _courseId |-> IF d = "config9" THEN "c9" ELSE "c1",
      createdAt |-> ISO(0),
      updatedAt |-> ISO(0)]]

InitStamp ==
  /\ now = 0
  /\ req \in Requests
  /\ db = ContentDocs
  /\ st = EmptyBag
  /\ ev = [op |-> "none"]

Data == req.apiData.data

\* the clock advances between any two steps
Tick ==
  /\ now < MaxClock
  /\ now' = now + 1
  /\ UNCHANGED <<revision, regVars, req, db, st, ev>>

\* ---------------------------------------------------------- updateAuthor
\* AuthorStamped without the test of req.method
AuthorStampedAnyMethod(rq, u) ==
  IF Has(rq.apiData, "modifying") /\ rq.apiData.modifying
     /\ Falsy(rq.apiData.data, "createdBy")
  THEN Set(rq.apiData.data, "createdBy", IdToString(u))
  ELSE rq.apiData.data

\* AuthorStamped without the test of data.createdBy
AuthorStampedOverwrite(rq, u) ==
  IF rq.method = "POST"
     /\ Has(rq.apiData, "modifying") /\ rq.apiData.modifying
  THEN Set(rq.apiData.data, "createdBy", IdToString(u))
  ELSE rq.apiData.data

\* AuthorStamped testing data.createdAt where it should test data.createdBy
AuthorStampedGuardsCreatedAt(rq, u) ==
  IF rq.method = "POST"
     /\ Has(rq.apiData, "modifying") /\ rq.apiData.modifying
     /\ Falsy(rq.apiData.data, "createdAt")
  THEN Set(rq.apiData.data, "createdBy", IdToString(u))
  ELSE rq.apiData.data

\* the payload after updateAuthor(req) with req.auth.user = u
AuthorStamped(rq, u) ==
  IF rq.method = "POST"
     /\ Has(rq.apiData, "modifying") /\ rq.apiData.modifying
     /\ Falsy(rq.apiData.data, "createdBy")
  THEN Set(rq.apiData.data, "createdBy", IdToString(u))
  ELSE rq.apiData.data

UpdateAuthor(u) ==
  /\ req' = [req EXCEPT !.apiData.data = AuthorStamped(req, u)]
  /\ ev' = [op |-> "updateAuthor", user |-> u, before |-> Data]
  /\ UNCHANGED <<revision, regVars, now, db, st>>

\* ------------------------------------------------------ updateTimestamps
\* TimeStamped keeping a createdAt that is there (the earlier revisions'
\* `if(!data.createdAt) data.createdAt = now`)
TimeStampedKeepCreated(action, data, t) ==
  LET d == Set(data, "updatedAt", ISO(t)) IN
  IF action = "insert" /\ ~Has(data, "createdAt")
  THEN Set(d, "createdAt", d.updatedAt) ELSE d

\* TimeStamped ignoring the action
TimeStampedAnyAction(action, data, t) ==
  LET d == Set(data, "updatedAt", ISO(t)) IN Set(d, "createdAt", d.updatedAt)

\* TimeStamped with the two fields swapped: createdAt refreshed by every
\* call, updatedAt written on insert only
TimeStampedSwapped(action, data, t) ==
  LET d == Set(data, "createdAt", ISO(t)) IN
  IF action = "insert" THEN Set(d, "updatedAt", d.createdAt) ELSE d

\* data after `data.updatedAt = new Date().toISOString();
\*             if(action === 'insert') data.createdAt = data.updatedAt`
TimeStamped(action, data, t) ==
  LET d == Set(data, "updatedAt", ISO(t)) IN
  IF action = "insert" THEN Set(d, "createdAt", d.updatedAt) ELSE d

\* a call of updateCourseTimestamp(data), suspended at
\* `await this.app.waitForModule('content', 'mongodb')`
CourseCall(fn) ==
  [pc |-> "waitForModule", fn |-> fn, query |-> <<>>, found |-> <<>>,
   writes |-> <<>>]

\* updateTimestamps(action, data) up to its first await
UpdateTimestamps(action) ==
  /\ BagCardinality(st) < MaxStampers
  /\ req' = [req EXCEPT !.apiData.data = TimeStamped(action, Data, now)]
  /\ ev' = [op |-> "updateTimestamps", action |-> action, before |-> Data,
            at |-> now]
  /\ IF revision = "part_000"
     THEN UNCHANGED st
     ELSE st' = Add(st, CourseCall("updateTimestamps"))
  /\ UNCHANGED <<revision, regVars, now, db>>

\* --------------------------------------------------- updateCourseTimestamp
\* content.find(query): the ids of the matching documents, in store order
Matching(docs, query) ==
  {d \in DOMAIN docs : /\ docs[d]._type = query._type
                       /\ Has(query, "_courseId")
                       /\ docs[d]._courseId = query._courseId}

StoreOrder == <<"config1", "page1", "config9">>

InOrder(S) == SelectSeq(StoreOrder, LAMBDA d : d \in S)

\* what `await content.find(query)` may resolve with: the matching
\* documents, or, when there is none, also a list holding undefined
FindResults(docs, query) ==
  LET found == InOrder(Matching(docs, query)) IN
  IF found = <<>> THEN {<<>>, <<Undefined>>} ELSE {found}

\* { _type: 'config', _courseId: data._courseId }
ConfigQuery(data) ==
  IF Has(data, "_courseId")
  THEN [_type |-> "config", _courseId |-> data._courseId]
  ELSE [_type |-> "config"]

\* mongodb.update(collectionName, filter, { $set: ... }) on the collection
MongoUpdate(docs, w) ==
  [d \in DOMAIN docs |->
     IF w.collection = "content" /\ docs[d]._id = w.filter._id
     THEN [f \in DOMAIN docs[d] |->
             IF f \in DOMAIN w.set THEN w.set[f] ELSE docs[d][f]]
     ELSE docs[d]]

\* ConfigWrite running the whole insert stamping on the config
ConfigWriteStamped(c, t) ==
  [collection |-> "content", filter |-> [_id |-> c],
   set |-> [updatedAt |-> ISO(t), createdAt |-> ISO(t)]]

\* the mongodb.update call updateCourseTimestamp issues for config id c
ConfigWrite(c, t) ==
  [collection |-> "content", filter |-> [_id |-> c],
   set |-> [updatedAt |-> ISO(t)]]

\* `const [config] = res`
FirstOf(res) == IF Len(res) = 0 THEN Undefined ELSE res[1]

\* CourseWrites without `if (!config) return`
CourseWritesUnguarded(config, t) == <<ConfigWrite(config, t)>>

\* the mongodb.update calls updateCourseTimestamp makes once the lookup
\* gave config: none after `if (!config) return`
CourseWrites(config, t) ==
  IF config = Undefined THEN <<>> ELSE <<ConfigWrite(config, t)>>

\* UpdateCourseTimestamp stamping the document it is given, as
\* updateTimestamps does
UpdateCourseTimestampStamps ==
  /\ revision = "spec_js"
  /\ BagCardinality(st) < MaxStampers
  /\ st' = Add(st, CourseCall("updateCourseTimestamp"))
  /\ req' = [req EXCEPT !.apiData.data = TimeStamped("update", Data, now)]
  /\ ev' = [op |-> "updateCourseTimestamp", before |-> Data]
  /\ UNCHANGED <<revision, regVars, now, db>>

\* spec_js: updateCourseTimestamp(data) called on its own (the pre-delete
\* handler, a direct call)
UpdateCourseTimestamp ==
  /\ revision = "spec_js"
  /\ BagCardinality(st) < MaxStampers
  /\ st' = Add(st, CourseCall("updateCourseTimestamp"))
  /\ ev' = [op |-> "updateCourseTimestamp", before |-> Data]
  /\ UNCHANGED <<revision, regVars, now, req, db>>

\* the call resumes with the modules and the result of content.find:
\* `const [config] = ...; if (!config) return`, else it reads the clock and
\* awaits mongodb.update
FindConfig(c, res) ==
  /\ BagIn(c, st)
  /\ c.pc = "waitForModule"
  /\ res \in FindResults(db, ConfigQuery(Data))
  /\ LET ws == CourseWrites(FirstOf(res), now) IN
     IF ws = <<>>
     THEN /\ st' = Remove(st, c)
          /\ ev' = [op |-> "returned", fn |-> c.fn,
                    query |-> ConfigQuery(Data), found |-> res,
                    writes |-> ws, dbBefore |-> db]
     ELSE /\ st' = Replace(st, c, [c EXCEPT
                      !.pc = "update", !.query = ConfigQuery(Data),
                      !.found = res, !.writes = ws])
          /\ ev' = [op |-> "find", fn |-> c.fn]
  /\ UNCHANGED <<revision, regVars, now, req, db>>

\* mongodb.update resolves: the write is in the collection, the call returns
UpdateResolved(c) ==
  /\ BagIn(c, st)
  /\ c.pc = "update"
  /\ db' = MongoUpdate(db, c.writes[1])
  /\ st' = Remove(st, c)
  /\ ev' = [op |-> "returned", fn |-> c.fn, query |-> c.query,
            found |-> c.found, writes |-> c.writes, dbBefore |-> db]
  /\ UNCHANGED <<revision, regVars, now, req>>

NextStamp ==
  \/ Tick
  \/ \E u \in Users : UpdateAuthor(u)
  \/ \E action \in {"insert", "update"} : UpdateTimestamps(action)
  \/ UpdateCourseTimestamp
  \/ \E c \in BagToSet(st), res \in {<<>>, <<Undefined>>, <<"config1">>} :
       FindConfig(c, res)
  \/ \E c \in BagToSet(st) : UpdateResolved(c)

\* ------------------------------------------------------------ checkAccess
\* value.toString() of a createdBy: the hex string of an ObjectId, a string
\* itself
Str(v) ==
  CASE v = "ObjectId(a1)" -> "a1"
    [] v = "ObjectId(b2)" -> "b2"
    [] OTHER -> v

\* the documents of the module the access check is made for: page1 and
\* page2 have an owner, page3 has none
AccessDocs ==
  [d \in {"page1", "page2", "page3"} |->
     IF d = "page3" THEN [_id |-> d]
     ELSE [_id |-> d,
           createdBy |-> IF d = "page1" THEN "ObjectId(a1)" ELSE "b2"]]

\* the data the access-check hook passes: with or without createdBy, for a
\* stored document, a missing one (page7) or with no _id at all
AccessData ==
  {cb @@ id : cb \in Prop("createdBy", {"", "a1", "ObjectId(b2)"}),
              id \in Prop("_id", {"page1", "page2", "page3", "page7"})}

\* what `await mod.find({ _id: data._id })` resolves with. The source holds
\* two conventions: the list of matching documents (content.find, whose
\* result is destructured) and the document itself, nothing when there is
\* none (the `.createdBy` read straight off the result)
ModFind(docs, data) ==
  LET ids == IF Has(data, "_id") THEN {d \in DOMAIN docs : docs[d]._id = data._id}
             ELSE {} IN
  {[shape |-> "list", docs |-> ids]} \cup
  {[shape |-> "doc", docs |-> ids]}

\* `(result).createdBy`: undefined on a list; a TypeError on nothing
CreatedByOf(docs, res) ==
  IF res.shape = "list" THEN [threw |-> FALSE, value |-> Undefined]
  ELSE IF res.docs = {} THEN [threw |-> TRUE, value |-> "TypeError"]
  ELSE LET d == CHOOSE x \in res.docs : TRUE IN
       [threw |-> FALSE,
        value |-> IF Has(docs[d], "createdBy") THEN docs[d].createdBy
                  ELSE Undefined]

\* `createdBy && createdBy.toString() === req.auth.user._id.toString()`:
\* a falsy createdBy is the value of the expression
AccessResult(createdBy, u) ==
  IF ~Truthy(createdBy) THEN createdBy
  ELSE IF Str(createdBy) = IdToString(u) THEN "true" ELSE "false"

\* the promise of checkAccess settling
Settled(u, how, threw, value) ==
  [op |-> "checkAccess", user |-> u, data |-> Data, how |-> how,
   threw |-> threw, value |-> value]

\* checkAccess(mod, req, data) up to its await: data.createdBy || ... only
\* looks the document up when data.createdBy is falsy
CheckAccess(u) ==
  /\ revision = "part_000"
  /\ IF ~Falsy(Data, "createdBy")
     THEN /\ ev' = Settled(u, "data", FALSE, AccessResult(Data.createdBy, u))
          /\ UNCHANGED st
     ELSE /\ BagCardinality(st) < MaxStampers
          /\ st' = Add(st, [pc |-> "find", fn |-> "checkAccess", user |-> u])
          /\ ev' = [op |-> "find", fn |-> "checkAccess"]
  /\ UNCHANGED <<revision, regVars, now, req, db>>

\* mod.find resolves with res and checkAccess returns or throws
FindResolved(c, res) ==
  /\ BagIn(c, st)
  /\ c.pc = "find"
  /\ st' = Remove(st, c)
  /\ LET cb == CreatedByOf(db, res) IN
     ev' = IF cb.threw THEN Settled(c.user, res.shape, TRUE, cb.value)
           ELSE Settled(c.user, res.shape, FALSE, AccessResult(cb.value, c.user))
  /\ UNCHANGED <<revision, regVars, now, req, db>>

NextAccess ==
  \/ \E u \in Users : CheckAccess(u)
  \/ \E c \in BagToSet(st), res \in ModFind(db, Data) : FindResolved(c, res)

Init ==
  /\ revision \in Revisions
  /\ InitRegister
  /\ InitStamp

\* the whole module; registration and stamping share no state but the
\* revision, so each half is also checked on its own
Next ==
  \/ NextRegister
  \/ NextStamp
  \/ NextAccess

Spec == Init /\ [][Next]_vars

\* registration alone, the stamping state at rest
InitRegisterOnly ==
  /\ revision \in Revisions
  /\ registeredModules = <<>>
  /\ schemaExtensions = {}
  /\ schemasRun = <<>>
  /\ taps = [m \in Mods |-> NoTaps]
  /\ reg = EmptyBag
  /\ last = NoCall
  /\ calls = 0
  /\ now = 0
  /\ req = [method |-> "POST", apiData |-> [data |-> <<>>]]
  /\ db = ContentDocs
  /\ st = EmptyBag
  /\ ev = [op |-> "none"]

SpecRegister == InitRegisterOnly /\ [][NextRegister]_vars

\* stamping alone, the registration state at rest
SpecStamp == Init /\ [][NextStamp]_vars

\* the access check alone, in the revision that has it
InitAccess ==
  /\ revision = "part_000"
  /\ registeredModules = <<>>
  /\ schemaExtensions = {}
  /\ schemasRun = <<>>
  /\ taps = [m \in Mods |-> NoTaps]
  /\ reg = EmptyBag
  /\ last = NoCall
  /\ calls = 0
  /\ now = 0
  /\ req \in {[method |-> "GET", apiData |-> [data |-> d]] : d \in AccessData}
  /\ db = AccessDocs
  /\ st = EmptyBag
  /\ ev = [op |-> "none"]

SpecAccess == InitAccess /\ [][NextAccess]_vars

\* ------------------------------------------------------------------ claims
Registered(m) ==
  \E i \in DOMAIN registeredModules : registeredModules[i] = m

\* a registerModule(m, o) call starts in this step
Calls(m, o) == RegisterModule(m, o)

\* C1: a registerModule(m) call made when m is already in the
\* registered-module list fails with DUPL_AUTHORED_MODULE_NAME, and the
\* failing call leaves the list, the schema registry and the hook
\* subscriber lists as they were (it is not left suspended either).
C1_DuplicateRejected ==
  [][\A m \in Mods, o \in Opts :
       (Calls(m, o) /\ Registered(m)) =>
          /\ last'.mod = m
          /\ last'.result = "DUPL_AUTHORED_MODULE_NAME"
          /\ reg' = reg
          /\ UNCHANGED <<registeredModules, schemaExtensions, schemasRun,
                         taps>>]_vars

C1_Witness ==
  /\ last.result = "DUPL_AUTHORED_MODULE_NAME"
  /\ Registered(last.mod)
  /\ taps[last.mod]["requestHook"] = <<HUpdateAuthor>>

\* C2: registerModule(m) for a module m with isApiModule false that is not
\* registered fails with API_MODULE_INVALID_CLASS: m is not added to the
\* list, extendSchema is not called and nothing is subscribed to m's hooks.
C2_NonApiRejected ==
  [][\A m \in Mods, o \in Opts :
       (Calls(m, o) /\ ~isApiModule(m) /\ ~Registered(m)) =>
          /\ last'.mod = m
          /\ last'.result = "API_MODULE_INVALID_CLASS"
          /\ last'.extendArgs = <<>>
          /\ reg' = reg
          /\ ~Registered(m)'
          /\ UNCHANGED <<registeredModules, schemaExtensions, schemasRun,
                         taps>>
          /\ taps'[m] = NoTaps]_vars

C2_Witness ==
  /\ last.result = "API_MODULE_INVALID_CLASS"
  /\ last.mod = "logger"
  /\ ~Registered("logger")

\* C3 (as the specification states it): when extendSchema throws during
\* registerModule(m) for an unregistered API module m with a schemaName, the
\* error is swallowed: the call completes successfully, m is in the
\* registered-module list and m's hooks are subscribed.
C3_SchemaFailureSwallowed ==
  (last.threw /\ isApiModule(last.mod) /\ Truthy(schemaName(last.mod))) =>
     /\ last.result = "ok"
     /\ Registered(last.mod)
     /\ taps[last.mod]["requestHook"] # <<>>

\* the payload carries an author: createdBy is there and not empty
CarriesAuthor(o) == Has(o, "createdBy") /\ o["createdBy"] # ""

Modifying == Has(req.apiData, "modifying") /\ req.apiData.modifying = TRUE

\* every property but f is as it was in o
SameBut(o, n, f) ==
  /\ DOMAIN n \ {f} = DOMAIN o \ {f}
  /\ \A x \in DOMAIN o \ {f} : n[x] = o[x]

\* C4: updateAuthor(request) sets the payload's createdBy to the
\* authenticated principal's identifier (the string of its _id) if and only
\* if the method is POST, the modifying flag is truthy and the payload
\* carries no createdBy (none, or an empty one); in every other case the
\* payload is left exactly as it was.
C4_UpdateAuthorIff ==
  ev.op = "updateAuthor" =>
     IF req.method = "POST" /\ Modifying /\ ~CarriesAuthor(ev.before)
     THEN /\ Has(Data, "createdBy")
          /\ Data.createdBy = IdToString(ev.user)
          /\ SameBut(ev.before, Data, "createdBy")
     ELSE Data = ev.before

C4_Witness ==
  /\ ev.op = "updateAuthor"
  /\ req.method = "POST" /\ Modifying
  /\ ~Has(ev.before, "createdBy")
  /\ Has(ev.before, "_courseId")
  /\ Data.createdBy = "a1"

\* C5: updateAuthor never overrides an author and is idempotent: a payload
\* that carries createdBy is left unchanged whatever the principal is, so
\* after one application every further application, under any principal,
\* leaves the payload as the first one left it.
C5_UpdateAuthorIdempotent ==
  ev.op = "updateAuthor" =>
     /\ CarriesAuthor(ev.before) => Data = ev.before
     /\ \A u \in Users : AuthorStamped(req, u) = Data

C5_Witness ==
  /\ ev.op = "updateAuthor"
  /\ req.method = "POST" /\ Modifying
  /\ CarriesAuthor(ev.before)
  /\ ev.before.createdBy = "a1"
  /\ ev.user = "ObjectId(b2)"
  /\ Data.createdBy = "a1"

\* C6: after updateTimestamps('insert', data) has stamped data, createdAt
\* and updatedAt are both set and equal the one timestamp read from the
\* clock during the call (the rest of the call never writes data).
C6_InsertStampsBoth ==
  (ev.op = "updateTimestamps" /\ ev.action = "insert") =>
     /\ Has(Data, "createdAt") /\ Has(Data, "updatedAt")
     /\ Data.createdAt = Data.updatedAt
     /\ Data.updatedAt = ISO(ev.at)

C6_Witness ==
  /\ ev.op = "updateTimestamps" /\ ev.action = "insert"
  /\ ~Has(ev.before, "createdAt")
  /\ ev.at = 1
  /\ Data.createdAt = ISO(1) /\ Data.updatedAt = ISO(1)

\* C7: updateTimestamps('update', data) sets data.updatedAt to the current
\* time and leaves createdAt and createdBy (and every other property)
\* untouched: absent stays absent, present keeps its value.
C7_UpdateKeepsCreated ==
  (ev.op = "updateTimestamps" /\ ev.action = "update") =>
     /\ Has(Data, "updatedAt") /\ Data.updatedAt = ISO(ev.at)
     /\ Has(Data, "createdAt") <=> Has(ev.before, "createdAt")
     /\ Has(Data, "createdBy") <=> Has(ev.before, "createdBy")
     /\ SameBut(ev.before, Data, "updatedAt")

C7_Witness ==
  /\ ev.op = "updateTimestamps" /\ ev.action = "update"
  /\ ~Has(ev.before, "createdAt") /\ ~Has(Data, "createdAt")
  /\ Has(ev.before, "createdBy")
  /\ Data.updatedAt = ISO(1)

\* C8 (as the specification states it): updateTimestamps('insert', data)
\* sets createdAt only when data has none; a createdAt that is already
\* there is preserved and only updatedAt is refreshed.
C8_InsertKeepsCreatedAt ==
  (ev.op = "updateTimestamps" /\ ev.action = "insert"
     /\ Has(ev.before, "createdAt")) =>
     /\ Data.createdAt = ev.before.createdAt
     /\ Data.updatedAt = ISO(ev.at)

\* the config documents of course c in the collection
ConfigsOf(docs, c) ==
  {d \in DOMAIN docs : docs[d]._type = "config" /\ docs[d]._courseId = c}

\* C9: for a document with _courseId = C and a config document for C,
\* updateCourseTimestamp looks up {_type: 'config', _courseId: C} and
\* issues exactly one update, on the content collection, filtered by that
\* config's _id, whose patch sets only updatedAt; no other document and no
\* other field of the config is written.
C9_OnlyConfigUpdatedAt ==
  (ev.op = "returned" /\ Has(Data, "_courseId")
     /\ ConfigsOf(ev.dbBefore, Data._courseId) # {}) =>
     LET cfg == CHOOSE d \in ConfigsOf(ev.dbBefore, Data._courseId) : TRUE IN
     /\ ev.query = [_type |-> "config", _courseId |-> Data._courseId]
     /\ Len(ev.writes) = 1
     /\ ev.writes[1].collection = "content"
     /\ ev.writes[1].filter = [_id |-> cfg]
     /\ DOMAIN ev.writes[1].set = {"updatedAt"}
     /\ \A d \in DOMAIN db : d # cfg => db[d] = ev.dbBefore[d]
     /\ SameBut(ev.dbBefore[cfg], db[cfg], "updatedAt")
     /\ db[cfg].updatedAt = ev.writes[1].set.updatedAt

C9_Witness ==
  /\ ev.op = "returned"
  /\ Has(Data, "_courseId") /\ Data._courseId = "c1"
  /\ Len(ev.writes) = 1
  /\ ev.dbBefore["config1"].updatedAt = ISO(0)
  /\ db["config1"].updatedAt = ISO(1)

\* the lookup gave no document: an empty list or undefined first
NoneFound(found) == found = <<>> \/ found[1] = Undefined

\* C10: for a document with _courseId = C whose config lookup returns no
\* document (an empty result or an undefined first element),
\* updateCourseTimestamp writes nothing and returns (it is never left
\* waiting for an update).
C10_NoConfigNoWrite ==
  /\ (ev.op = "returned" /\ Has(Data, "_courseId") /\ NoneFound(ev.found)) =>
        /\ ev.writes = <<>>
        /\ db = ev.dbBefore
  /\ \A c \in BagToSet(st) : c.pc = "update" => ~NoneFound(c.found)

C10_Witness ==
  /\ ev.op = "returned"
  /\ Has(Data, "_courseId") /\ Data._courseId = "c2"
  /\ ev.found = <<Undefined>>
  /\ ev.writes = <<>>

\* the propagation calls made by updateTimestamps that are in flight
PropagationsOf(fn) == {c \in BagToSet(st) : c.fn = fn}

\* C11 (as the specification states it): every updateTimestamps(action,
\* data) call triggers course-timestamp propagation for data._courseId once
\* data has been stamped (right after the stamping the propagation's lookup
\* is pending), and the call does not complete before the lookup and any
\* resulting config update have completed.
C11_StampingPropagates ==
  /\ ev.op = "updateTimestamps" =>
        /\ Has(Data, "updatedAt") /\ Data.updatedAt = ISO(ev.at)
        /\ ev.action = "insert" => Has(Data, "createdAt")
        /\ \E c \in PropagationsOf("updateTimestamps") :
              c.pc = "waitForModule"
  /\ (ev.op = "returned" /\ ev.fn = "updateTimestamps") =>
        /\ ev.query = ConfigQuery(Data)
        /\ \A i \in 1..Len(ev.writes) :
              db[ev.writes[i].filter._id].updatedAt =
                ev.writes[i].set.updatedAt

\* the owner of the document data stands for: data.createdBy, else the
\* createdBy of the stored document with data._id, else none
OwnerOf(docs, data) ==
  IF ~Falsy(data, "createdBy") THEN data.createdBy
  ELSE IF Has(data, "_id") /\ data._id \in DOMAIN docs
          /\ Has(docs[data._id], "createdBy")
       THEN docs[data._id].createdBy
       ELSE Undefined

\* C12 (as the specification states it): checkAccess(mod, request, data)
\* returns true if and only if the document's owner (createdBy) equals the
\* requesting principal's identifier; in every other case, also when neither
\* data.createdBy nor the looked-up document yields an owner, it denies
\* access with a falsy value and raises no error.
C12_AccessIffOwner ==
  ev.op = "checkAccess" =>
     /\ ~ev.threw
     /\ ev.value \in {"true", "false", Undefined, ""}
     /\ ev.value = "true" <=>
          /\ Truthy(OwnerOf(db, ev.data))
          /\ Str(OwnerOf(db, ev.data)) = IdToString(ev.user)

\* C13: createdBy is immutable after first assignment: once the payload
\* carries a createdBy, no step of updateAuthor, updateTimestamps or
\* updateCourseTimestamp, under any principal, changes or removes it.
C13_CreatedByImmutable ==
  [][CarriesAuthor(Data) =>
       (CarriesAuthor(Data') /\ Data'.createdBy = Data.createdBy)]_vars

C13_Witness ==
  /\ ev.op = "updateTimestamps" /\ ev.action = "insert"
  /\ CarriesAuthor(ev.before) /\ ev.before.createdBy = "a1"
  /\ req.method = "POST" /\ Modifying
  /\ Data.createdBy = "a1"

\* a <= b for two toISOString() values: the order of the strings, digit by
\* digit, which is the order of the instants
IsoLeq(a, b) == a[1] < b[1] \/ (a[1] = b[1] /\ a[2] <= b[2])

Ordered(o) ==
  (Has(o, "createdAt") /\ Has(o, "updatedAt")) =>
     IsoLeq(o["createdAt"], o["updatedAt"])

\* C14: in every reachable state, every document that has both createdAt
\* and updatedAt (the payload being stamped, every stored document)
\* satisfies createdAt <= updatedAt, for any sequence of insert and update
\* stampings under a clock that never goes back.
C14_CreatedNotAfterUpdated ==
  /\ Ordered(Data)
  /\ \A d \in DOMAIN db : Ordered(db[d])

C14_Witness ==
  /\ ev.op = "updateTimestamps" /\ ev.action = "update"
  /\ Has(ev.before, "updatedAt") /\ ev.before.updatedAt = ISO(0)
  /\ Has(Data, "createdAt") /\ Data.createdAt = ISO(0)
  /\ Data.updatedAt = ISO(1)
  /\ db["config1"].updatedAt = ISO(1)

\* property f is in n exactly as it is in o: absent in both or equal
Kept(o, n, f) ==
  /\ Has(n, f) <=> Has(o, f)
  /\ Has(o, f) => n[f] = o[f]

\* the updateTimestamps call that stamped last has completed: none of the
\* propagations it awaits is pending
StampingDone ==
  \/ ev.op = "updateTimestamps" /\ PropagationsOf("updateTimestamps") = {}
  \/ ev.op = "returned" /\ ev.fn = "updateTimestamps"

\* C15 (as the specification states it): createdAt is set once, at
\* creation: the insert stamping sets createdAt and updatedAt to its
\* timestamp, every update stamping after it keeps createdAt and createdBy
\* and sets updatedAt to its own time, and when a stamping has completed the
\* config of the document's course has been refreshed by it.
C15_CreatedOnceCourseRefreshed ==
  /\ (ev.op = "updateTimestamps" /\ ev.action = "insert") =>
        /\ Has(Data, "createdAt") /\ Data.createdAt = ISO(ev.at)
        /\ Data.updatedAt = ISO(ev.at)
  /\ (ev.op = "updateTimestamps" /\ ev.action = "update") =>
        /\ Kept(ev.before, Data, "createdAt")
        /\ Kept(ev.before, Data, "createdBy")
        /\ Data.updatedAt = ISO(ev.at)
  /\ (StampingDone /\ Has(Data, "_courseId")
        /\ ConfigsOf(db, Data._courseId) # {}) =>
        /\ ev.op = "returned"
        /\ Len(ev.writes) = 1
        /\ ev.writes[1].filter._id \in ConfigsOf(db, Data._courseId)
        /\ db[ev.writes[1].filter._id].updatedAt = ev.writes[1].set.updatedAt

\* no module is in the list twice
NoDuplicates(seq) ==
  \A i, j \in 1..Len(seq) : seq[i] = seq[j] => i = j

\* calls have run one after another so far: at most one is in flight, the
\* list has no duplicate and a call still before its push is for a module
\* that is not in the list
OneAfterAnother ==
  /\ BagCardinality(reg) <= 1
  /\ NoDuplicates(registeredModules)
  /\ \A c \in BagToSet(reg) :
       c.pc = "waitForModule" => ~Registered(c.mod)

\* C16: no step of any registerModule call, successful or failing, removes
\* or moves an entry of the registered-module list: the list stays as it is
\* or gets one module appended; the module of a successful call is in the
\* list; and as long as calls run one after another (no call starts while
\* another is in flight) no module is in the list more than once.
C16_AppendOnlyNoDuplicates ==
  [][/\ \/ registeredModules' = registeredModules
        \/ \E m \in Mods : registeredModules' = Append(registeredModules, m)
     /\ last'.result = "ok" => Includes(registeredModules', last'.mod)
     /\ (OneAfterAnother /\ BagCardinality(reg') <= 1) => OneAfterAnother']_vars

C16_Witness ==
  /\ Len(registeredModules) = 2
  /\ last.result = "ok"
  /\ registeredModules[2] = last.mod
  /\ registeredModules[1] # registeredModules[2]
  /\ reg = EmptyBag

\* the positions of module m in the registered-module list
PositionsOf(seq, m) == {i \in 1..Len(seq) : seq[i] = m}

\* C17 (as the specification states it): during registerModule(m) the
\* schema registry receives extendSchema(m.schemaName, 'authored') when m
\* has a schemaName, and extendSchema is not called for m when m has none
\* (by the call's own conditional or by the registerSchemas run it awaits),
\* the module being registered all the same.
C17_ExtendOnlyWithSchemaName ==
  [][/\ last'.result = "ok" =>
          /\ Includes(registeredModules', last'.mod)
          /\ last'.extendArgs =
               IF Truthy(schemaName(last'.mod))
               THEN <<schemaName(last'.mod)>> ELSE <<>>
     /\ \A c \in BagToSet(reg) :
          /\ (\E threw \in BOOLEAN : ExtendSchema(c, threw)) =>
                Truthy(schemaName(c.mod))
          /\ (/\ ~Truthy(schemaName(c.mod))
              /\ \E throws \in [1..Len(registeredModules) -> BOOLEAN] :
                   AwaitRegisterSchemas(c, throws)) =>
                \A i \in PositionsOf(registeredModules, c.mod) :
                   i \notin DOMAIN schemasRun']_vars

\* a registerModule(m) call resolves in this step: it leaves the calls in
\* flight, or it started and ended in the one step
CompletesOk(m) ==
  /\ last'.mod = m
  /\ last'.result = "ok"
  /\ \/ BagCardinality(reg') < BagCardinality(reg)
     \/ calls' = calls + 1 /\ reg' = reg

\* the call subscribed exactly handler h to hook
TappedOnce(m, hook, h) == taps'[m][hook] = Append(taps[m][hook], h)

\* C18 (as the specification states it): each successful registerModule(m)
\* subscribes exactly one handler to each of m's requestHook,
\* preInsertHook, preUpdateHook and preDeleteHook: updateAuthor on the
\* request hook, updateTimestamps bound to 'insert' and applied to the
\* insert data on pre-insert, updateTimestamps bound to 'update' and
\* applied to the update data (not the original document) on pre-update.
C18_OneHandlerPerHook ==
  [][\A m \in Mods :
       CompletesOk(m) =>
          /\ TappedOnce(m, "requestHook", HUpdateAuthor)
          /\ TappedOnce(m, "preInsertHook", HInsert)
          /\ TappedOnce(m, "preUpdateHook", HUpdate)
          /\ Len(taps'[m]["preDeleteHook"]) =
               Len(taps[m]["preDeleteHook"]) + 1]_vars

\* the extendSchema calls of the run just made are one per module of the
\* list, in list order, each with the module's schemaName
OnePerModuleInOrder(throws) ==
  /\ Len(schemasRun') = Len(registeredModules)
  /\ \A i \in 1..Len(registeredModules) :
       /\ schemasRun'[i].schema = schemaName(registeredModules[i])
       /\ schemasRun'[i].threw = throws[i]

\* C19: registerSchemas calls extendSchema(mod.schemaName, 'authored') once
\* for each module in the registered-module list, in list order (no call
\* for an empty list); an exception extendSchema throws for a module is
\* swallowed: the remaining modules are still attempted and registerSchemas
\* does not reject (a registerModule awaiting it goes on to tap the hooks).
C19_RegisterSchemasEachInOrder ==
  [][\A throws \in [1..Len(registeredModules) -> BOOLEAN] :
       /\ RegisterSchemas(throws) => OnePerModuleInOrder(throws)
       /\ \A c \in BagToSet(reg) :
            AwaitRegisterSchemas(c, throws) =>
               /\ OnePerModuleInOrder(throws)
               /\ BagIn([c EXCEPT !.pc = "tap"], reg')
               /\ last' = last]_vars

C19_Witness ==
  /\ Len(registeredModules) = 2
  /\ Len(schemasRun) = 2
  /\ schemasRun[1].threw /\ ~schemasRun[2].threw
  /\ schemasRun[1].schema = schemaName(registeredModules[1])
  /\ schemasRun[2].schema = schemaName(registeredModules[2])
  /\ schemasRun[1].schema # schemasRun[2].schema
  /\ \E c \in BagToSet(reg) : c.pc = "tap"

\* a step of a registerModule(m, o) call: its start, or a resumption of the
\* call as it is suspended
StepOf(m, o) ==
  \/ RegisterModule(m, o)
  \/ \E c \in BagToSet(reg) :
       /\ c.mod = m /\ c.opts = o
       /\ \/ \E threw \in BOOLEAN : ExtendSchema(c, threw)
          \/ TapHooks(c)

\* C20 (as the specification states it): the access-check handler is
\* subscribed to m's accessCheckHook if and only if options.accessCheck is
\* truthy: a successful call that asks for it subscribes checkAccess bound
\* to m, and a call whose options do not ask for it, a call with no options
\* argument included, never touches m.accessCheckHook.
C20_AccessCheckIffRequested ==
  [][\A m \in Mods, o \in Opts :
       StepOf(m, o) =>
          IF o = "accessCheckTrue"
          THEN CompletesOk(m) => TappedOnce(m, "accessCheckHook", HAccess)
          ELSE taps'[m]["accessCheckHook"] = taps[m]["accessCheckHook"]]_vars

\* a step of a call of the pre-delete handler: updateCourseTimestamp(ogDoc)
\* starting, or resuming after its lookup or its update
DeleteHandlerStep ==
  \/ UpdateCourseTimestamp
  \/ \E c \in PropagationsOf("updateCourseTimestamp") :
       \/ \E res \in FindResults(db, ConfigQuery(Data)) : FindConfig(c, res)
       \/ UpdateResolved(c)

StampedInCourse ==
  /\ Has(Data, "updatedAt")
  /\ Has(Data, "_courseId")
  /\ ConfigsOf(db, Data._courseId) # {}

\* C22: whenever no stamping is in flight, the config of the course of a
\* stamped document carries an updatedAt that is not earlier than the
\* document's own updatedAt.
C22_ConfigNotOlderThanStamped ==
  (st = EmptyBag /\ StampedInCourse) =>
     \A id \in ConfigsOf(db, Data._courseId) :
        IsoLeq(Data.updatedAt, db[id].updatedAt)

\* C23: the registered-module list holds no module twice, whatever the
\* interleaving of the registerModule calls in flight.
C23_NeverListedTwice ==
  NoDuplicates(registeredModules)

\* handler h is among those subscribed to m's hook
Subscribed(m, hook, h) ==
  \E i \in 1..Len(taps[m][hook]) : taps[m][hook][i] = h

\* the request, pre-insert and pre-update handlers are all subscribed to m
FullySubscribed(m) ==
  /\ Subscribed(m, "requestHook", HUpdateAuthor)
  /\ Subscribed(m, "preInsertHook", HInsert)
  /\ Subscribed(m, "preUpdateHook", HUpdate)

\* C24: once a registerModule(m) call has completed and none is in flight,
\* m is in the registered-module list exactly when the request, pre-insert
\* and pre-update handlers are subscribed to it; so a call that fails
\* part-way leaves m out of the list.
C24_AllOrNothing ==
  (last.mod # "none" /\ reg = EmptyBag) =>
     (Registered(last.mod) <=> FullySubscribed(last.mod))

====
